---- MODULE Spec2Model ----
(***************************************************************************)
(* Model of the KataGo analysis-engine core (src/src/analysis_engine.rs):  *)
(* the request facade (analyze / send_query / wait_for_response), the      *)
(* pending-request table, the stdout reader thread of every engine         *)
(* incarnation and the process monitor (keepalive + auto-restart) loop.    *)
(*                                                                         *)
(* The child engine and its pipes are the environment: a child answers a   *)
(* query it has read with one line carrying the query's id, and it may     *)
(* exit at any time.  Lines already written to its stdout stay readable    *)
(* after it exits; the reader sees end-of-stream once they are consumed.   *)
(***************************************************************************)
EXTENDS Integers, Sequences, FiniteSets

\* ---------------------------------------------------------------- bounds
NCallers == 2       \* analyze calls in flight (each caller makes one call)
MaxId    == 2       \* request ids are 1..MaxId
MaxInc   == 2       \* engine incarnations ever spawned (the first included)
MaxPings == 1       \* keepalive pings in the pipes of one incarnation
NMsgs    == 2       \* distinct message texts an error of the core carries
MaxLogs  == 1       \* unread lines without an id on one incarnation's stdout
MaxKomi  == 9       \* komi values are 0..MaxKomi points, in quarter points
MaxMoves == 3       \* moves of one analysis request
MaxMoveLen == 2     \* characters of a move string drawn from MoveChars
MaxWidth == 26      \* board widths are 0..MaxWidth, and 241 and 255
PipeCap  == 1       \* lines the pipe to a child's stdin holds

\* ------------------------------------------------------ program constants
MAX_RESTART_ATTEMPTS == 5
move_timeout_secs    == 20

\* ------------------------------------------------------- configuration
DEFAULT_PORT == 2718

\* KatagoConfig::default and ServerConfig::default
DefaultConfig ==
    [server |-> [host |-> "0.0.0.0", port |-> DEFAULT_PORT],
     katago |-> [katago_path |-> "./katago",
                 model_path |-> "./model.bin.gz",
                 config_path |-> "./analysis_config.cfg",
                 move_timeout_secs |-> move_timeout_secs]]

\* no health response and no error response under way
NoHealth == [code |-> 0, status |-> "none"]

NoProblem == [status |-> 0, title |-> "none", detail |-> 0, request_id |-> 0]
NoApi == [stage |-> "none", err |-> [kind |-> "none", arg |-> 0],
          problem |-> NoProblem, http_status |-> 0]

Callers == 1..NCallers
Incs    == 1..MaxInc

\* request_id.unwrap_or_else(|| Uuid::new_v4()): the id of a call is the
\* caller's or a generated one.  A generated id differs from every id in
\* use, which is one of the choices a caller-supplied id has as well.
Ids     == 1..MaxId

\* "id": "keepalive" of the monitor's ping, "id": "query_version" of
\* query_version.  A caller may supply either string as its request_id.
KEEPALIVE     == MaxId + 1
QUERY_VERSION == MaxId + 2
AllIds == Ids \cup {KEEPALIVE, QUERY_VERSION}
\* the fresh uuid of a clear_cache call: no request id equals it
CLEAR_CACHE   == MaxId + 3

\* What the child reads: analysis queries, query_version actions and the
\* clear_cache action.  An analysis query the child has answered with a
\* first line and still works on is kept as "searching".
Queries == [id : AllIds, action : {"analyze"}]
               \cup [id : {KEEPALIVE, QUERY_VERSION}, action : {"query_version"}]
               \cup [id : {CLEAR_CACHE}, action : {"clear_cache"}]
               \cup [id : AllIds, action : {"searching"}]

\* What the child writes.  A line is told apart by what wait_for_response
\* looks at: whether it decodes as AnalysisResult and whether it has an
\* "error" field.
\*   result          an analysis result
\*   error           {"id": .., "error": ..}
\*   malformed       a schema field of the wrong type, no "error" field
\*   malformed_error a schema field of the wrong type, and an "error" field
\*   version         {"id": .., "action": "query_version", "version": ..}
ReplyKinds == {"result", "error", "malformed", "malformed_error"}
\*   later           a further result line for a request already answered
LineKinds  == ReplyKinds \cup {"version", "later"}
\* Lines that carry no request id: text that is not JSON, and JSON without
\* a string "id" field.
LogKinds   == {"nonjson", "noid"}
LogKeys    == [id : {0}, kind : LogKinds]
\* the child's reply to clear_cache: {"id": .., "action": "clear_cache"}
ClearedKeys == [id : {CLEAR_CACHE}, kind : {"cleared"}]
LineKeys   == [id : AllIds, kind : LineKinds] \cup LogKeys \cup ClearedKeys

LineIdDefaulted(k) == IF k.kind \in LogKinds THEN 1 ELSE k.id

\* serde_json::from_str::<Value>(line), then value.get("id").and_then(as_str);
\* 0 when either yields nothing
LineId(k) ==
    IF k.kind = "nonjson" THEN 0
    ELSE IF k.kind = "noid" THEN 0
    ELSE k.id

\* serde_json::from_str::<AnalysisResult>: id is the only required field,
\* every other field has #[serde(default)] and unknown fields are ignored.
Decodes(k) == k \in {"result", "error", "version", "cleared", "later"}

\* value.get("error")
HasError(k) == k \in {"error", "malformed_error"}

NoLine == [id |-> 0, inc |-> 0, kind |-> "none"]

\* The units that write to the engine's stdin: send_query of every analyze
\* call, clear_cache, query_version and the monitor's keepalive ping.
Senders == {<<"send_query", c>> : c \in Callers}
               \cup {<<"clear_cache", 0>>, <<"query_version", 0>>,
                     <<"keepalive", 0>>}
NoSender == <<"none", 0>>

VARIABLES
    process_alive,   \* AtomicBool process_alive
    pending,         \* pending_requests: set of [id, owner] (owner's Sender)
    stdin,           \* Option<ChildStdin>: incarnation of the handle, 0 = None
    process,         \* Option<Child>: incarnation of the child, 0 = None
    restart_count,   \* local of process_monitor_loop
    sv_pc,           \* position of process_monitor_loop
    spawned,         \* number of children spawned so far
    child,           \* child[i]: "none" | "running" | "exited" | "reaped"
    reader,          \* stdout reader thread of incarnation i
    drain,           \* stderr reader thread of incarnation i
    inbox,           \* inbox[i][q]: queries read by child i, not yet answered
    outq,            \* outq[i][k]: lines child i wrote, not yet read
    pc,              \* pc[c]: position of caller c's analyze call
    cid,             \* cid[c]: request_id of the call
    chan,            \* chan[c]: the call's oneshot channel
    result,          \* result[c]: what analyze returned
    reg_inc,         \* incarnation current when c registered (history)
    core,            \* the AnalysisEngine value: "unbuilt" | "failed" |
                     \*   "live" | "dropped"
    new_result,      \* what AnalysisEngine::new returned
    stdin_guard,     \* the sender holding the MutexGuard of stdin
    wpc,             \* wpc[u]: position of sender u in its critical section
    wire,            \* senders of the fragments of the unfinished line
    config,          \* the Config main loaded
    health,          \* response of the health endpoint not yet taken
    api,             \* an error of the core on its way to an HTTP response
    ctl,             \* the clear_cache or query_version call in progress
    held,            \* held[l]: the unit holding the guard of mutex l
    lpc,             \* lpc[u]: position of unit u in its lock program
    request,         \* the AnalysisRequest handed to analyze
    analysis_query,  \* the AnalysisQuery analyze built from it
    mv,              \* a move string under is_valid_move
    pipe             \* pipe[i]: lines in the pipe to child i's stdin, unread

vars == <<process_alive, pending, stdin, process, restart_count, sv_pc,
          spawned, child, reader, inbox, outq, pc, cid, chan, result,
          reg_inc, core, new_result, stdin_guard, wpc, wire, drain, config,
          health, api, ctl, held, lpc, request, analysis_query, mv, pipe>>

engineVars == <<spawned, child, reader, drain, inbox, outq>>
svVars     == <<stdin, process, restart_count, sv_pc>>
callVars   == <<pc, cid, chan, result, reg_inc>>
lockVars   == <<stdin_guard, wpc, wire>>
lkVars     == <<held, lpc>>
fnVars     == <<request, analysis_query, mv, pipe>>
auxVars    == <<config, health, api, ctl, lkVars, fnVars>>
extVars    == <<core, new_result, lockVars, auxVars>>
\* the engine, the calls and the stdin critical section
coreVars   == <<process_alive, pending, svVars, engineVars, callVars, core,
                new_result, lockVars>>

\* analyze has no request in hand, and has built no query
NoRequest == [moves |-> << >>, rules |-> {}, komi |-> {},
              initial_stones |-> {}, initial_player |-> {}, given |-> FALSE]
NoQuery   == [moves |-> << >>, rules |-> "", komi |-> 0, built |-> FALSE]
\* no move string is under validation
NoMove    == [move_str |-> << >>, board_x_size |-> 0, board_y_size |-> 0,
              overflow_checks |-> FALSE, valid |-> "idle", letter |-> -2]

\* no clear_cache or query_version call in progress
NoCtl == [op |-> "none", pc |-> "idle", res |-> "none"]

\* The three mutexes of AnalysisEngine and the units that lock them: the
\* analyze calls, the stdout reader of every incarnation, the monitor and
\* a caller of clear_cache or query_version.
LockNames == {"process", "stdin", "pending"}
LkUnits ==
    {<<"analyze", c>> : c \in Callers} \cup {<<"reader", i>> : i \in Incs}
        \cup {<<"monitor", 0>>, <<"control", 0>>}
NoUnit == <<"none", 0>>

\* after construction: the first reader reads, the monitor sleeps
LkStart ==
    [u \in LkUnits |->
        CASE u[1] = "reader"  -> IF u[2] = 1 THEN "read" ELSE "none"
          [] u[1] = "monitor" -> "sleep"
          [] OTHER            -> "idle"]

\* ------------------------------------------------------------- channels
ChanNone    == [st |-> "none",    line |-> NoLine]
ChanOpen    == [st |-> "open",    line |-> NoLine]
ChanClosed  == [st |-> "closed",  line |-> NoLine]   \* Sender dropped
ChanDropped == [st |-> "dropped", line |-> NoLine]   \* Receiver dropped
ChanValue(l) == [st |-> "value", line |-> l]

NoResult == [kind |-> "none", id |-> 0, line |-> NoLine, secs |-> 0]
ErrResult(k) == [kind |-> k, id |-> 0, line |-> NoLine, secs |-> 0]

\* ------------------------------------------------- pending-request table
HasEntry(tbl, id) == \E e \in tbl : e.id = id

\* requests.remove(id)
Remove(tbl, id) == {e \in tbl : e.id # id}

InsertNoReplace(tbl, id, c) == tbl \cup {[id |-> id, owner |-> c]}

\* requests.insert(id, tx): HashMap::insert replaces the value of a key
\* that is already present.
Insert(tbl, id, c) == Remove(tbl, id) \cup {[id |-> id, owner |-> c]}

LookupAny(tbl, id) == tbl

\* the entries requests.remove(id) yields
Lookup(tbl, id) == {e \in tbl : e.id = id}

\* A Sender removed from the table without a send is dropped: the owner's
\* receiver, if it still waits, observes the channel closed.
CloseSenders(ch, owners) ==
    [c \in Callers |->
        IF c \in owners /\ ch[c].st = "open" THEN ChanClosed ELSE ch[c]]

Owners(tbl) == {e.owner : e \in tbl}

EmptyInbox == [q \in Queries |-> 0]
EmptyOutq  == [k \in LineKeys |-> 0]

Query(id)   == [id |-> id, action |-> "analyze"]
Searching(id) == [id |-> id, action |-> "searching"]
Ping        == [id |-> KEEPALIVE, action |-> "query_version"]
Key(id, k)  == [id |-> id, kind |-> k]

\* -------------------------------------------------------------- initial
\* State after AnalysisEngine::new returned Ok: the first child is running,
\* its streams are installed, its reader is started, the monitor sleeps.
InitEngine ==
    /\ process_alive = TRUE
    /\ pending = {}
    /\ stdin = 1
    /\ process = 1
    /\ restart_count = 0
    /\ sv_pc = "sleep"
    /\ spawned = 1
    /\ child  = [i \in Incs |-> IF i = 1 THEN "running" ELSE "none"]
    /\ reader = [i \in Incs |-> IF i = 1 THEN "running" ELSE "none"]
    /\ drain  = [i \in Incs |-> IF i = 1 THEN "running" ELSE "none"]
    /\ inbox = [i \in Incs |-> EmptyInbox]
    /\ outq  = [i \in Incs |-> EmptyOutq]
    /\ pc = [c \in Callers |-> "idle"]
    /\ cid = [c \in Callers |-> 0]
    /\ chan = [c \in Callers |-> ChanNone]
    /\ result = [c \in Callers |-> NoResult]
    /\ reg_inc = [c \in Callers |-> 0]
    /\ core = "live"
    /\ new_result = "ok"
    /\ stdin_guard = NoSender
    /\ wpc = [u \in Senders |-> "idle"]
    /\ wire = << >>
    /\ config = DefaultConfig
    /\ health = NoHealth
    /\ api = NoApi
    /\ ctl = NoCtl
    /\ held = [l \in LockNames |-> NoUnit]
    /\ lpc = LkStart

\* no request is being converted, no move string being validated, and the
\* pipe to the child's stdin is empty
InitIdle ==
    /\ request = NoRequest
    /\ analysis_query = NoQuery
    /\ mv = NoMove
    /\ pipe = [i \in Incs |-> << >>]

Init == InitEngine /\ InitIdle

\* ------------------------------------------------------------ the engine
\* The child answers one query it has read with one line carrying that id:
\* a query_version action with its version line, an analysis query with a
\* result, an error or a line that does not fit the result schema.
\* The child answers in any order, so the pipe is kept as the bag of the
\* lines in it: reading them in any order is reading them in the order of
\* some emission.
EngineReply(i, q, k) ==
    /\ child[i] = "running"
    /\ inbox[i][q] > 0
    /\ CASE q.action = "query_version" -> k = "version"
         [] q.action = "clear_cache"   -> k = "cleared"
         [] q.action = "searching"     -> FALSE
         [] OTHER                      -> k \in ReplyKinds
    /\ inbox' = [inbox EXCEPT ![i][q] = @ - 1]
    /\ outq' = [outq EXCEPT ![i][Key(q.id, k)] = @ + 1]
    /\ UNCHANGED <<process_alive, pending, svVars, spawned, child, reader, drain,
                   callVars, extVars>>

\* The child answers an analysis query with a first result line and goes
\* on searching.
EngineReplyFirst(i, id) ==
    /\ child[i] = "running"
    /\ inbox[i][Query(id)] > 0
    /\ inbox' = [inbox EXCEPT ![i][Query(id)] = @ - 1,
                              ![i][Searching(id)] = @ + 1]
    /\ outq' = [outq EXCEPT ![i][Key(id, "result")] = @ + 1]
    /\ UNCHANGED <<process_alive, pending, svVars, spawned, child, reader, drain,
                   callVars, extVars>>

\* The child writes a further line with the id of a query it has answered
\* before.  The pipe keeps the order of the two lines: the later one is
\* written here once the first has been read.
EngineReplyLater(i, id) ==
    /\ child[i] = "running"
    /\ inbox[i][Searching(id)] > 0
    /\ outq[i][Key(id, "result")] = 0
    /\ inbox' = [inbox EXCEPT ![i][Searching(id)] = @ - 1]
    /\ outq' = [outq EXCEPT ![i][Key(id, "later")] = @ + 1]
    /\ UNCHANGED <<process_alive, pending, svVars, spawned, child, reader, drain,
                   callVars, extVars>>

\* The child prints a line that answers no query.
EngineLog(i, k) ==
    /\ child[i] = "running"
    /\ outq[i][Key(0, "nonjson")] + outq[i][Key(0, "noid")] < MaxLogs
    /\ outq' = [outq EXCEPT ![i][k] = @ + 1]
    /\ UNCHANGED <<process_alive, pending, svVars, spawned, child, reader, drain,
                   inbox, callVars, extVars>>

\* The child exits (crash or external kill); unanswered queries die with it.
ChildExit(i) ==
    /\ child[i] = "running"
    /\ child' = [child EXCEPT ![i] = "exited"]
    /\ inbox' = [inbox EXCEPT ![i] = EmptyInbox]
    /\ UNCHANGED <<process_alive, pending, svVars, spawned, reader, drain, outq,
                   callVars, extVars>>

\* ------------------------------------------------------ request facade
\* Callers are interchangeable and so are the ids 1..MaxId: calls start in
\* caller order and a call takes an id already used, the least unused one,
\* or one of the two ids the core uses itself.  Every run of the program is
\* a renaming of one of these.
UsedIds == {cid[c] : c \in {x \in Callers : pc[x] # "idle"}}

CallOrder(c, id) ==
    /\ \A x \in Callers : x < c => pc[x] # "idle"
    /\ \A d \in Ids : (id \in Ids /\ d < id) => d \in UsedIds

AliveCheckSkipped == TRUE

\* send_query: if !self.process_alive.load(SeqCst) { return Err(ProcessDied) }
AliveCheck == process_alive

\* analyze up to the liveness check of send_query: the id is the caller's
\* or a generated one; a dead engine fails the call at once.
Analyze(c, id) ==
    /\ core = "live"
    /\ pc[c] = "idle"
    /\ CallOrder(c, id)
    /\ cid' = [cid EXCEPT ![c] = id]
    /\ IF AliveCheck
         THEN /\ pc' = [pc EXCEPT ![c] = "send"]
              /\ result' = result
         ELSE /\ pc' = [pc EXCEPT ![c] = "done"]
              /\ result' = [result EXCEPT ![c] = ErrResult("dead")]
    /\ UNCHANGED <<process_alive, pending, svVars, engineVars, chan,
                   reg_inc, extVars>>

\* send_query after the check: lock stdin, writeln!, flush.  A write to the
\* pipe of an exited child fails; the failure surfaces in writeln! (the `?`
\* turns it into IoError) or in flush (flag cleared, ProcessDied).
WriteQuery(c) ==
    /\ pc[c] = "send"
    /\ IF stdin = 0
         THEN /\ pc' = [pc EXCEPT ![c] = "done"]
              /\ result' = [result EXCEPT ![c] = ErrResult("dead")]
              /\ UNCHANGED <<process_alive, inbox>>
         ELSE IF child[stdin] = "running"
         THEN /\ inbox' = [inbox EXCEPT ![stdin][Query(cid[c])] = @ + 1]
              /\ pc' = [pc EXCEPT ![c] = "sent"]
              /\ UNCHANGED <<process_alive, result>>
         ELSE /\ pc' = [pc EXCEPT ![c] = "done"]
              /\ inbox' = inbox
              /\ \E fails \in {"writeln", "flush"} :
                    IF fails = "writeln"
                      THEN /\ result' = [result EXCEPT ![c] = ErrResult("io")]
                           /\ process_alive' = process_alive
                      ELSE /\ result' = [result EXCEPT ![c] = ErrResult("dead")]
                           /\ process_alive' = FALSE
    /\ UNCHANGED <<pending, svVars, spawned, child, reader, drain, outq, cid, chan,
                   reg_inc, extVars>>

\* wait_for_response, first half: create the channel and insert the Sender.
Register(c) ==
    /\ pc[c] = "sent"
    /\ pending' = Insert(pending, cid[c], c)
    /\ chan' = CloseSenders([chan EXCEPT ![c] = ChanOpen],
                            Owners(pending) \ Owners(pending'))
    /\ reg_inc' = [reg_inc EXCEPT ![c] = spawned]
    /\ pc' = [pc EXCEPT ![c] = "waiting"]
    /\ UNCHANGED <<process_alive, svVars, engineVars, cid, result, extVars>>

\* The match on the delivered line: Ok(result) when it decodes as
\* AnalysisResult; otherwise ResponseError when it has an "error" field and
\* ParseError when it has none.
ParseResponse(id, l) ==
    IF Decodes(l.kind)
      THEN [kind |-> "ok", id |-> id, line |-> l, secs |-> 0]
      ELSE IF HasError(l.kind) THEN ErrResult("engine_error")
                               ELSE ErrResult("parse_error")

\* Ok(Ok(response)): analyze builds the AnalysisResponse with id: request_id
\* from a decoded line and returns the error otherwise.
RecvLine(c) ==
    /\ pc[c] = "waiting"
    /\ chan[c].st = "value"
    /\ result' = [result EXCEPT ![c] = ParseResponse(cid[c], chan[c].line)]
    /\ pc' = [pc EXCEPT ![c] = "done"]
    /\ chan' = [chan EXCEPT ![c] = ChanDropped]
    /\ reg_inc' = [reg_inc EXCEPT ![c] = 0]
    /\ UNCHANGED <<process_alive, pending, svVars, engineVars, cid, extVars>>

\* Ok(Err(_)): the Sender was dropped.
RecvClosed(c) ==
    /\ pc[c] = "waiting"
    /\ chan[c].st = "closed"
    /\ result' = [result EXCEPT ![c] = ErrResult("dead")]
    /\ pc' = [pc EXCEPT ![c] = "done"]
    /\ chan' = [chan EXCEPT ![c] = ChanDropped]
    /\ reg_inc' = [reg_inc EXCEPT ![c] = 0]
    /\ UNCHANGED <<process_alive, pending, svVars, engineVars, cid, extVars>>

\* timeout(duration, rx) elapses with nothing in the channel; the future,
\* and with it the Receiver, is dropped before the Err(_) arm runs.
Deadline(c) ==
    /\ pc[c] = "waiting"
    /\ chan[c].st = "open"
    /\ chan' = [chan EXCEPT ![c] = ChanDropped]
    /\ pc' = [pc EXCEPT ![c] = "timedout"]
    /\ reg_inc' = [reg_inc EXCEPT ![c] = 0]
    /\ UNCHANGED <<process_alive, pending, svVars, engineVars, cid, result,
                   extVars>>

CancelKeepsEntry(tbl, id) == tbl

\* the Err(_) arm: requests.remove(id)
CancelEntry(tbl, id) == Remove(tbl, id)

\* Err(KatagoError::Timeout(timeout_secs))
TimeoutSecs == move_timeout_secs

TimeoutCancel(c) ==
    /\ pc[c] = "timedout"
    /\ pending' = CancelEntry(pending, cid[c])
    /\ chan' = CloseSenders(chan, Owners(pending) \ Owners(pending'))
    /\ result' = [result EXCEPT ![c] =
                    [kind |-> "timeout", id |-> 0, line |-> NoLine,
                     secs |-> TimeoutSecs]]
    /\ pc' = [pc EXCEPT ![c] = "done"]
    /\ UNCHANGED <<process_alive, svVars, engineVars, cid, reg_inc, extVars>>

\* ------------------------------------------------- stdout reader thread
\* Ok(_): parse the id, remove the entry, send the line to its Sender; a
\* send to a dropped Receiver fails and the line is lost; an id that is not
\* in the table is logged and discarded.
ReadLine(i, k) ==
    /\ reader[i] = "running"
    /\ outq[i][k] > 0
    /\ LET l == [id |-> LineId(k), inc |-> i, kind |-> k.kind] IN
         /\ outq' = [outq EXCEPT ![i][k] = @ - 1]
         /\ IF l.id = 0 \/ Lookup(pending, l.id) = {}
              THEN UNCHANGED <<pending, chan>>
              ELSE /\ \E e \in Lookup(pending, l.id) :
                        /\ pending' = pending \ {e}
                        /\ chan' = IF chan[e.owner].st = "open"
                                     THEN [chan EXCEPT ![e.owner] = ChanValue(l)]
                                     ELSE chan
    /\ UNCHANGED <<process_alive, svVars, spawned, child, reader, drain, inbox,
                   pc, cid, result, reg_inc, extVars>>

ReadEofKeepsFlag(i) ==
    /\ reader[i] = "running"
    /\ outq[i] = EmptyOutq
    /\ child[i] \in {"exited", "reaped"}
    /\ reader' = [reader EXCEPT ![i] = "exited"]
    /\ UNCHANGED <<process_alive, pending, svVars, spawned, child, drain,
                   inbox, outq, callVars, extVars>>

\* Ok(0) or Err(e): store false in process_alive and leave the loop.
ReadEof(i) ==
    /\ reader[i] = "running"
    /\ outq[i] = EmptyOutq
    /\ child[i] \in {"exited", "reaped"}
    /\ process_alive' = FALSE
    /\ reader' = [reader EXCEPT ![i] = "exited"]
    /\ UNCHANGED <<pending, svVars, spawned, child, drain, inbox, outq,
                   callVars, extVars>>

\* ------------------------------------------------- stderr drain thread
DrainEofClearsFlag(i) ==
    /\ drain[i] = "running"
    /\ drain' = [drain EXCEPT ![i] = "exited"]
    /\ process_alive' = FALSE
    /\ UNCHANGED <<pending, svVars, spawned, child, reader, inbox, outq,
                   callVars, extVars>>

\* Ok(0) or Err(_): break.  The child may close its stderr at any time;
\* the lines read before that are only logged.
DrainEof(i) ==
    /\ drain[i] = "running"
    /\ drain' = [drain EXCEPT ![i] = "exited"]
    /\ UNCHANGED <<process_alive, pending, svVars, spawned, child, reader,
                   inbox, outq, callVars, extVars>>

\* ------------------------------------------------- process monitor loop
TickGiveUpResets ==
    /\ sv_pc = "sleep"
    /\ ~process_alive
    /\ restart_count >= MAX_RESTART_ATTEMPTS
    /\ restart_count' = 0
    /\ UNCHANGED <<process_alive, pending, stdin, process, sv_pc, engineVars,
                   callVars, extVars>>

\* process dead and restart_count >= MAX_RESTART_ATTEMPTS: log, continue.
TickGiveUp ==
    /\ sv_pc = "sleep"
    /\ ~process_alive
    /\ restart_count >= MAX_RESTART_ATTEMPTS
    /\ UNCHANGED vars

TickDeadNoCap ==
    /\ sv_pc = "sleep"
    /\ ~process_alive
    /\ sv_pc' = "delay"
    /\ UNCHANGED <<process_alive, pending, stdin, process, restart_count,
                   engineVars, callVars, extVars>>

\* process dead, attempts left: sleep RESTART_DELAY_SECS, then restart.
TickDead ==
    /\ sv_pc = "sleep"
    /\ ~process_alive
    /\ restart_count < MAX_RESTART_ATTEMPTS
    /\ sv_pc' = "delay"
    /\ UNCHANGED <<process_alive, pending, stdin, process, restart_count,
                   engineVars, callVars, extVars>>

KillOldNoKill ==
    /\ sv_pc = "delay"
    /\ process' = 0
    /\ sv_pc' = "spawn"
    /\ UNCHANGED <<process_alive, pending, stdin, restart_count, engineVars,
                   callVars, extVars>>

\* process.lock().take(): kill the old child and wait for it.
KillOld ==
    /\ sv_pc = "delay"
    /\ IF process # 0
         THEN /\ child' = [child EXCEPT ![process] = "reaped"]
              /\ inbox' = [inbox EXCEPT ![process] = EmptyInbox]
         ELSE UNCHANGED <<child, inbox>>
    /\ process' = 0
    /\ sv_pc' = "spawn"
    /\ UNCHANGED <<process_alive, pending, stdin, restart_count, spawned,
                   reader, drain, outq, callVars, extVars>>

\* spawn_katago_process Ok: install stdin and child, store true, start the
\* new reader threads, count the restart.
SpawnOk ==
    /\ sv_pc = "spawn"
    /\ spawned < MaxInc
    /\ spawned' = spawned + 1
    /\ stdin' = spawned'
    /\ process' = spawned'
    /\ process_alive' = TRUE
    /\ child' = [child EXCEPT ![spawned'] = "running"]
    /\ reader' = [reader EXCEPT ![spawned'] = "running"]
    /\ drain' = [drain EXCEPT ![spawned'] = "running"]
    /\ restart_count' = restart_count + 1
    /\ sv_pc' = "sleep"
    /\ UNCHANGED <<pending, inbox, outq, callVars, extVars>>

SpawnErrNotCounted ==
    /\ sv_pc = "spawn"
    /\ sv_pc' = "sleep"
    /\ UNCHANGED <<process_alive, pending, stdin, process, restart_count,
                   engineVars, callVars, extVars>>

\* spawn_katago_process Err: count the attempt.
SpawnErr ==
    /\ sv_pc = "spawn"
    /\ restart_count' = restart_count + 1
    /\ sv_pc' = "sleep"
    /\ UNCHANGED <<process_alive, pending, stdin, process, engineVars,
                   callVars, extVars>>

\* keepalive pings of incarnation i that are in its pipes
PingsInFlight(i) == inbox[i][Ping] + outq[i][Key(KEEPALIVE, "version")]

TickPingRestartsAtOnce ==
    /\ sv_pc = "sleep"
    /\ process_alive
    /\ IF stdin # 0 /\ child[stdin] = "running"
         THEN /\ restart_count' = 0
              /\ process_alive' = process_alive
              /\ inbox' = IF PingsInFlight(stdin) < MaxPings
                            THEN [inbox EXCEPT ![stdin][Ping] = @ + 1]
                            ELSE inbox
              /\ sv_pc' = sv_pc
         ELSE /\ process_alive' = FALSE
              /\ restart_count' = restart_count
              /\ inbox' = inbox
              /\ sv_pc' = "delay"
    /\ UNCHANGED <<pending, stdin, process, spawned, child, reader, drain,
                   outq, callVars, extVars>>

\* process alive: write the keepalive ping; a failed write or flush clears
\* the flag, a successful one resets restart_count.  The child reads the
\* ping (one more than MaxPings unanswered pings count as MaxPings).
TickPing ==
    /\ sv_pc = "sleep"
    /\ process_alive
    /\ IF stdin = 0
         THEN UNCHANGED <<process_alive, restart_count, inbox>>
         ELSE IF child[stdin] = "running"
         THEN /\ restart_count' = 0
              /\ process_alive' = process_alive
              /\ inbox' = IF PingsInFlight(stdin) < MaxPings
                            THEN [inbox EXCEPT ![stdin][Ping] = @ + 1]
                            ELSE inbox
         ELSE /\ process_alive' = FALSE
              /\ restart_count' = restart_count
              /\ inbox' = inbox
    /\ UNCHANGED <<pending, stdin, process, sv_pc, spawned, child, reader, drain,
                   outq, callVars, extVars>>

\* ---------------------------------------------------------------- next
\* the reader threads, the monitor loop and the exit of a child
Engine ==
    \/ \E i \in Incs : \E k \in LineKeys : ReadLine(i, k)
    \/ \E i \in Incs : ReadEof(i)
    \/ TickGiveUp
    \/ TickDead
    \/ KillOld
    \/ SpawnOk
    \/ SpawnErr
    \/ TickPing
    \/ \E i \in Incs : ChildExit(i)

\* the child answers analysis queries with lines of the kinds in K
Replies(K) ==
    \E i \in Incs : \E q \in Queries : \E k \in K \cup {"version", "cleared"} :
        EngineReply(i, q, k)

\* analyze calls of the callers in S with request ids in D
Calls(S, D) ==
    \/ \E c \in S : \E id \in D : Analyze(c, id)
    \/ \E c \in S : WriteQuery(c)
    \/ \E c \in S : Register(c)
    \/ \E c \in S : RecvLine(c)
    \/ \E c \in S : RecvClosed(c)
    \/ \E c \in S : Deadline(c)
    \/ \E c \in S : TimeoutCancel(c)

\* Concurrent analyze calls against an engine that answers every analysis
\* query with a result line.
Next == Calls(Callers, Ids) \/ Engine \/ Replies({"result"})

Spec == Init /\ [][Next]_vars

\* Concurrent analyze calls against an engine that answers with any kind
\* of line.
NextLines == Calls(Callers, {1}) \/ Engine \/ Replies(ReplyKinds)

SpecLines == Init /\ [][NextLines]_vars

\* Concurrent analyze calls whose request id may be the id of the
\* monitor's ping.
NextReserved ==
    Calls(Callers, {1, KEEPALIVE}) \/ Engine \/ Replies({"result"})

SpecReserved == Init /\ [][NextReserved]_vars

\* Concurrent analyze calls while the stderr drains of the incarnations
\* end at any time.
NextDrain ==
    \/ Calls(Callers, {1})
    \/ Engine
    \/ Replies({"result"})
    \/ \E i \in Incs : DrainEof(i)

SpecDrain == Init /\ [][NextDrain]_vars

\* Concurrent analyze calls against an engine that writes two lines for a
\* request.
NextDup ==
    \/ Calls(Callers, {1})
    \/ Engine
    \/ Replies({"result"})
    \/ \E i \in Incs : EngineReplyFirst(i, 1)
    \/ \E i \in Incs : EngineReplyLater(i, 1)

SpecDup == Init /\ [][NextDup]_vars

\* An analyze call against an engine that also prints lines without an id
\* (a call alone never finds its channel closed).
NextLog ==
    \/ Analyze(1, 1)
    \/ WriteQuery(1)
    \/ Register(1)
    \/ RecvLine(1)
    \/ Deadline(1)
    \/ TimeoutCancel(1)
    \/ Engine
    \/ Replies({"result"})
    \/ \E i \in Incs : \E k \in LogKeys : EngineLog(i, k)

SpecLog == Init /\ [][NextLog]_vars

\* State before AnalysisEngine::new: process_alive is created false, the
\* table empty, process and stdin None; no thread exists.
InitNew ==
    /\ process_alive = FALSE
    /\ pending = {}
    /\ stdin = 0
    /\ process = 0
    /\ restart_count = 0
    /\ sv_pc = "none"
    /\ spawned = 0
    /\ child  = [i \in Incs |-> "none"]
    /\ reader = [i \in Incs |-> "none"]
    /\ drain  = [i \in Incs |-> "none"]
    /\ inbox = [i \in Incs |-> EmptyInbox]
    /\ outq  = [i \in Incs |-> EmptyOutq]
    /\ pc = [c \in Callers |-> "idle"]
    /\ cid = [c \in Callers |-> 0]
    /\ chan = [c \in Callers |-> ChanNone]
    /\ result = [c \in Callers |-> NoResult]
    /\ reg_inc = [c \in Callers |-> 0]
    /\ core = "unbuilt"
    /\ new_result = "none"
    /\ stdin_guard = NoSender
    /\ wpc = [u \in Senders |-> "idle"]
    /\ wire = << >>
    /\ config = DefaultConfig
    /\ health = NoHealth
    /\ api = NoApi
    /\ ctl = NoCtl
    /\ held = [l \in LockNames |-> NoUnit]
    /\ lpc = LkStart
    /\ InitIdle

\* new, start_process Ok: stdin and child installed, flag stored true,
\* reader threads started; then the monitor thread is started and the
\* engine value returned.
NewOk ==
    /\ core = "unbuilt"
    /\ new_result = "none"
    /\ spawned < MaxInc
    /\ spawned' = spawned + 1
    /\ stdin' = spawned'
    /\ process' = spawned'
    /\ process_alive' = TRUE
    /\ child' = [child EXCEPT ![spawned'] = "running"]
    /\ reader' = [reader EXCEPT ![spawned'] = "running"]
    /\ drain' = [drain EXCEPT ![spawned'] = "running"]
    /\ sv_pc' = "sleep"
    /\ core' = "live"
    /\ new_result' = "ok"
    /\ UNCHANGED <<pending, restart_count, inbox, outq, callVars, lockVars,
                   auxVars>>

NewErrStartsMonitor ==
    /\ core = "unbuilt"
    /\ new_result = "none"
    /\ new_result' = "start_failed"
    /\ sv_pc' = "sleep"
    /\ UNCHANGED <<process_alive, pending, stdin, process, restart_count,
                   engineVars, callVars, core, lockVars, auxVars>>

\* new, start_process Err: `?` returns ProcessStartFailed before the
\* monitor thread is started.
NewErr ==
    /\ core = "unbuilt"
    /\ new_result = "none"
    /\ new_result' = "start_failed"
    /\ UNCHANGED <<process_alive, pending, svVars, engineVars, callVars,
                   core, lockVars, auxVars>>

\* Construction followed by the life of the engine without client calls.
NextNew == NewOk \/ NewErr \/ Engine \/ Replies({"result"})

SpecNew == InitNew /\ [][NextNew]_vars

\* -------------------------------------------------------------- teardown
\* Drop for AnalysisEngine: process.lock().take() and kill().  The value is
\* dropped when nothing borrows it, so no call is in progress.  The monitor
\* and reader threads hold their own references and run on.
Teardown ==
    /\ core = "live"
    /\ \A c \in Callers : pc[c] \in {"idle", "done"}
    /\ core' = "dropped"
    /\ IF process # 0 /\ child[process] = "running"
         THEN /\ child' = [child EXCEPT ![process] = "exited"]
              /\ inbox' = [inbox EXCEPT ![process] = EmptyInbox]
         ELSE UNCHANGED <<child, inbox>>
    /\ process' = 0
    /\ UNCHANGED <<process_alive, pending, stdin, restart_count, sv_pc,
                   spawned, reader, drain, outq, callVars, new_result,
                   lockVars, auxVars>>

\* The life of the engine without client calls, ended by a teardown.
NextDrop == Teardown \/ Engine \/ Replies({"result"})

SpecDrop == Init /\ [][NextDrop]_vars

\* ------------------------------------------------- the stdin mutex
\* The critical section of a sender, step by step: lock the stdin mutex,
\* writeln! (the payload and the newline are separate writes to the pipe),
\* flush, and the drop of the guard when the function or the loop body
\* ends.  The write actions above take the section as one step.
otherVars ==
    <<process_alive, pending, svVars, engineVars, callVars, core,
      new_result, auxVars>>

\* the sender is called and reaches stdin.lock()
CallSend(u) ==
    /\ wpc[u] = "idle"
    /\ wpc' = [wpc EXCEPT ![u] = "wait"]
    /\ UNCHANGED <<stdin_guard, wire, otherVars>>

LockStdinNoWait(u) ==
    /\ wpc[u] = "wait"
    /\ stdin_guard' = u
    /\ wpc' = [wpc EXCEPT ![u] = "locked"]
    /\ UNCHANGED <<wire, otherVars>>

\* stdin.lock().unwrap(): returns once no other guard exists
LockStdin(u) ==
    /\ wpc[u] = "wait"
    /\ stdin_guard = NoSender
    /\ stdin_guard' = u
    /\ wpc' = [wpc EXCEPT ![u] = "locked"]
    /\ UNCHANGED <<wire, otherVars>>

\* writeln!(stdin, "{}", json): the payload
WritePayload(u) ==
    /\ wpc[u] = "locked"
    /\ wire' = Append(wire, u)
    /\ wpc' = [wpc EXCEPT ![u] = "payload"]
    /\ UNCHANGED <<stdin_guard, otherVars>>

\* writeln!(stdin, "{}", json): the newline ends the line on the wire
WriteNewline(u) ==
    /\ wpc[u] = "payload"
    /\ wire' = << >>
    /\ wpc' = [wpc EXCEPT ![u] = "line"]
    /\ UNCHANGED <<stdin_guard, otherVars>>

\* stdin.flush()
Flush(u) ==
    /\ wpc[u] = "line"
    /\ wpc' = [wpc EXCEPT ![u] = "flushed"]
    /\ UNCHANGED <<stdin_guard, wire, otherVars>>

\* the guard goes out of scope
Unlock(u) ==
    /\ wpc[u] = "flushed"
    /\ stdin_guard' = IF stdin_guard = u THEN NoSender ELSE stdin_guard
    /\ wpc' = [wpc EXCEPT ![u] = "idle"]
    /\ UNCHANGED <<wire, otherVars>>

NextLock ==
    \E u \in Senders :
        \/ CallSend(u)
        \/ LockStdin(u)
        \/ WritePayload(u)
        \/ WriteNewline(u)
        \/ Flush(u)
        \/ Unlock(u)

SpecLock == Init /\ [][NextLock]_vars

\* --------------------------------------------- clear_cache, query_version
ClearQuery   == [id |-> CLEAR_CACHE, action |-> "clear_cache"]
VersionQuery == [id |-> QUERY_VERSION, action |-> "query_version"]

ctlOther ==
    <<pending, svVars, spawned, child, reader, drain, outq, callVars, core,
      new_result, lockVars, config, health, api, lkVars, fnVars>>

\* clear_cache: lock stdin (None is ProcessDied), write the action and
\* flush (a failure of either leaves through `?` as an IoError and does not
\* touch process_alive), Ok(())
ClearCache ==
    /\ core = "live"
    /\ ctl = NoCtl
    /\ IF stdin = 0
         THEN /\ ctl' = [op |-> "clear_cache", pc |-> "done", res |-> "dead"]
              /\ inbox' = inbox
         ELSE IF child[stdin] = "running"
         THEN /\ ctl' = [op |-> "clear_cache", pc |-> "done", res |-> "ok"]
              /\ inbox' = [inbox EXCEPT ![stdin][ClearQuery] = @ + 1]
         ELSE /\ ctl' = [op |-> "clear_cache", pc |-> "done", res |-> "io"]
              /\ inbox' = inbox
    /\ UNCHANGED <<process_alive, ctlOther>>

\* query_version, first half: lock stdin, write the action, flush, unlock,
\* then sleep 100 ms; the failures are those of clear_cache
QueryVersionWrite ==
    /\ core = "live"
    /\ ctl = NoCtl
    /\ IF stdin = 0
         THEN /\ ctl' = [op |-> "query_version", pc |-> "done", res |-> "dead"]
              /\ inbox' = inbox
         ELSE IF child[stdin] = "running"
         THEN /\ ctl' = [op |-> "query_version", pc |-> "sleep", res |-> "none"]
              /\ inbox' = [inbox EXCEPT ![stdin][VersionQuery] = @ + 1]
         ELSE /\ ctl' = [op |-> "query_version", pc |-> "done", res |-> "io"]
              /\ inbox' = inbox
    /\ UNCHANGED <<process_alive, ctlOther>>

QueryVersionCheckSkipped ==
    /\ ctl.op = "query_version"
    /\ ctl.pc = "sleep"
    /\ ctl' = [ctl EXCEPT !.pc = "done", !.res = "ok"]
    /\ UNCHANGED <<process_alive, inbox, ctlOther>>

\* query_version, second half: after the sleep, ProcessDied if the flag is
\* false, else Ok(("1.15.0", None))
QueryVersionCheck ==
    /\ ctl.op = "query_version"
    /\ ctl.pc = "sleep"
    /\ ctl' = [ctl EXCEPT !.pc = "done",
                          !.res = IF ~process_alive THEN "dead" ELSE "ok"]
    /\ UNCHANGED <<process_alive, inbox, ctlOther>>

\* One clear_cache or query_version call next to an analyze call (a call
\* alone never finds its channel closed).
NextCtl ==
    \/ ClearCache
    \/ QueryVersionWrite
    \/ QueryVersionCheck
    \/ Analyze(1, 1)
    \/ WriteQuery(1)
    \/ Register(1)
    \/ RecvLine(1)
    \/ Deadline(1)
    \/ TimeoutCancel(1)
    \/ Engine
    \/ Replies({"result"})

SpecCtl == Init /\ [][NextCtl]_vars

\* ------------------------------------------------------- lock scopes
\* Every unit as the sequence of its lock operations and of what it does
\* between them.  A position gives the operation the unit performs next:
\*   acquire / release   lock() on a mutex / its guard goes out of scope
\*   stream_io           a write to the child's stdin, a read of its stdout
\*   slot_wait           timeout(duration, rx).await
\*   step                anything else
LkOp(op, lock, next) == [op |-> op, lock |-> lock, next |-> next]

AnalyzeProgramHoldsStdin ==
    [idle         |-> LkOp("step", "none", {"lock_stdin"}),
     lock_stdin   |-> LkOp("acquire", "stdin", {"write"}),
     write        |-> LkOp("stream_io", "none", {"unlock_stdin"}),
     unlock_stdin |-> LkOp("step", "none", {"lock_insert"}),
     lock_insert  |-> LkOp("acquire", "pending", {"insert"}),
     insert       |-> LkOp("release", "pending", {"wait"}),
     wait         |-> LkOp("slot_wait", "none", {"received", "lock_remove"}),
     lock_remove  |-> LkOp("acquire", "pending", {"remove"}),
     remove       |-> LkOp("release", "pending", {"received"}),
     received     |-> LkOp("release", "stdin", {"idle"})]

\* analyze: send_query (stdin guard from lock() to the return), then
\* wait_for_response (insert under the pending lock, wait on rx with no
\* lock, on timeout remove under the pending lock).  A failed write
\* returns from send_query and ends the call.
AnalyzeProgram ==
    [idle         |-> LkOp("step", "none", {"lock_stdin"}),
     lock_stdin   |-> LkOp("acquire", "stdin", {"write"}),
     write        |-> LkOp("stream_io", "none", {"unlock_stdin"}),
     unlock_stdin |-> LkOp("release", "stdin", {"lock_insert", "idle"}),
     lock_insert  |-> LkOp("acquire", "pending", {"insert"}),
     insert       |-> LkOp("release", "pending", {"wait"}),
     wait         |-> LkOp("slot_wait", "none", {"received", "lock_remove"}),
     lock_remove  |-> LkOp("acquire", "pending", {"remove"}),
     remove       |-> LkOp("release", "pending", {"idle"}),
     received     |-> LkOp("step", "none", {"idle"})]

\* stdout thread: read_line with no lock; for a line with a string id,
\* remove and send under the pending lock; leave the loop at EOF.
ReaderProgram ==
    [none          |-> LkOp("unstarted", "none", {}),
     read          |-> LkOp("stream_io", "none",
                            {"read", "lock_dispatch", "exited"}),
     lock_dispatch |-> LkOp("acquire", "pending", {"dispatch"}),
     dispatch      |-> LkOp("release", "pending", {"read"}),
     exited        |-> LkOp("ended", "none", {})]

\* process_monitor_loop: a tick either pings under the stdin guard or
\* restarts: take the old child under the process guard and kill and
\* wait for it, spawn, install stdin, install the child, start the readers.
MonitorProgram ==
    [sleep            |-> LkOp("step", "none", {"lock_ping", "delay"}),
     lock_ping        |-> LkOp("acquire", "stdin", {"ping"}),
     ping             |-> LkOp("stream_io", "none", {"unlock_ping"}),
     unlock_ping      |-> LkOp("release", "stdin", {"sleep"}),
     delay            |-> LkOp("step", "none", {"lock_take"}),
     lock_take        |-> LkOp("acquire", "process", {"kill"}),
     kill             |-> LkOp("step", "none", {"unlock_take"}),
     unlock_take      |-> LkOp("release", "process", {"spawn"}),
     spawn            |-> LkOp("step", "none", {"lock_set_stdin", "sleep"}),
     lock_set_stdin   |-> LkOp("acquire", "stdin", {"set_stdin"}),
     set_stdin        |-> LkOp("release", "stdin", {"lock_set_process"}),
     lock_set_process |-> LkOp("acquire", "process", {"set_process"}),
     set_process      |-> LkOp("release", "process", {"start_readers"}),
     start_readers    |-> LkOp("start_readers", "none", {"sleep"})]

\* clear_cache and query_version: write under the stdin guard;
\* query_version then sleeps and reads the flag.
ControlProgram ==
    [idle         |-> LkOp("step", "none", {"lock_stdin"}),
     lock_stdin   |-> LkOp("acquire", "stdin", {"write"}),
     write        |-> LkOp("stream_io", "none", {"unlock_stdin"}),
     unlock_stdin |-> LkOp("release", "stdin", {"idle", "delay"}),
     delay        |-> LkOp("step", "none", {"idle"})]

Program(u) ==
    CASE u[1] = "analyze" -> AnalyzeProgram
      [] u[1] = "reader"  -> ReaderProgram
      [] u[1] = "monitor" -> MonitorProgram
      [] u[1] = "control" -> ControlProgram

\* the operation unit u performs next
NextOp(u) == Program(u)[lpc[u]]

lkOther == <<coreVars, config, health, api, ctl, fnVars>>

\* lock().unwrap() returns once no other guard of the mutex exists
LkAcquire(u) ==
    /\ NextOp(u).op = "acquire"
    /\ held[NextOp(u).lock] = NoUnit
    /\ held' = [held EXCEPT ![NextOp(u).lock] = u]
    /\ \E n \in NextOp(u).next : lpc' = [lpc EXCEPT ![u] = n]
    /\ UNCHANGED lkOther

\* the guard goes out of scope
LkRelease(u) ==
    /\ NextOp(u).op = "release"
    /\ held' = [held EXCEPT ![NextOp(u).lock] =
                  IF @ = u THEN NoUnit ELSE @]
    /\ \E n \in NextOp(u).next : lpc' = [lpc EXCEPT ![u] = n]
    /\ UNCHANGED lkOther

\* a step that takes and releases no lock
LkStep(u) ==
    /\ NextOp(u).op \in {"step", "stream_io", "slot_wait"}
    /\ \E n \in NextOp(u).next : lpc' = [lpc EXCEPT ![u] = n]
    /\ UNCHANGED <<held, lkOther>>

\* spawn_reader_threads after a restart: the next stdout thread starts
LkStartReaders(u) ==
    /\ NextOp(u).op = "start_readers"
    /\ LET new == {i \in Incs : lpc[<<"reader", i>>] = "none"} IN
         \E n \in NextOp(u).next :
            lpc' = IF new = {}
                     THEN [lpc EXCEPT ![u] = n]
                     ELSE [lpc EXCEPT ![u] = n,
                                      ![<<"reader", CHOOSE i \in new :
                                            \A j \in new : i <= j>>] = "read"]
    /\ UNCHANGED <<held, lkOther>>

LkUnit(u) == LkAcquire(u) \/ LkRelease(u) \/ LkStep(u) \/ LkStartReaders(u)

NextLocks ==
    \E u \in LkUnits :
        \/ LkAcquire(u)
        \/ LkRelease(u)
        \/ LkStep(u)
        \/ LkStartReaders(u)

SpecLocks == Init /\ [][NextLocks]_vars

\* -------------------------------------------------------- HTTP boundary
\* axum::http::StatusCode
HTTP_OK               == 200
BAD_REQUEST           == 400
INTERNAL_SERVER_ERROR == 500
SERVICE_UNAVAILABLE   == 503
GATEWAY_TIMEOUT       == 504

IsAliveStuck == TRUE

\* is_alive: self.process_alive.load(SeqCst)
IsAlive == process_alive

\* v1_health: is_alive is read once; Ok(Json(..)) is 200 and the Err arm
\* carries SERVICE_UNAVAILABLE.
V1Health ==
    /\ core = "live"
    /\ health = NoHealth
    /\ LET is_alive == IsAlive
           status   == IF is_alive THEN "healthy" ELSE "unhealthy" IN
         health' = IF is_alive
                     THEN [code |-> HTTP_OK, status |-> status]
                     ELSE [code |-> SERVICE_UNAVAILABLE, status |-> status]
    /\ UNCHANGED <<coreVars, config, api, ctl, lkVars, fnVars>>

\* the client takes the response
HealthTaken ==
    /\ health # NoHealth
    /\ health' = NoHealth
    /\ UNCHANGED <<coreVars, config, api, ctl, lkVars, fnVars>>

\* The life of the engine without analyze calls, probed by the health
\* endpoint.
NextHealth == V1Health \/ HealthTaken \/ Engine \/ Replies({"result"})

SpecHealth == Init /\ [][NextHealth]_vars

\* KatagoError values: the kind and what it carries (the seconds of a
\* Timeout, the message text of the others; ProcessDied carries nothing).
\* api.rs also matches a JsonError.
Msgs == 1..NMsgs

KatagoErrors ==
    [kind : {"start_failed", "parse_error", "io", "invalid_command",
             "engine_error", "json"}, arg : Msgs]
        \cup [kind : {"timeout"}, arg : {1, config.katago.move_timeout_secs}]
        \cup [kind : {"dead"}, arg : {0}]

\* ApiError::new(status, title, detail)
ApiErrorNew(status, title, detail) ==
    [status |-> status, title |-> title, detail |-> detail, request_id |-> 0]

ApiErrorFromAllInternal(e) ==
    ApiErrorNew(INTERNAL_SERVER_ERROR, "Internal Error", e.arg)

\* impl From<KatagoError> for ApiError
ApiErrorFrom(e) ==
    CASE e.kind = "timeout" ->
             ApiErrorNew(GATEWAY_TIMEOUT, "Analysis Timeout", e.arg)
      [] e.kind = "dead" ->
             ApiErrorNew(SERVICE_UNAVAILABLE, "Service Unavailable", e.arg)
      [] e.kind = "parse_error" ->
             ApiErrorNew(INTERNAL_SERVER_ERROR, "Parse Error", e.arg)
      [] e.kind = "start_failed" ->
             ApiErrorNew(SERVICE_UNAVAILABLE, "Service Unavailable", e.arg)
      [] e.kind = "invalid_command" ->
             ApiErrorNew(BAD_REQUEST, "Invalid Request", e.arg)
      [] e.kind = "engine_error" ->
             ApiErrorNew(INTERNAL_SERVER_ERROR, "KataGo Error", e.arg)
      [] e.kind = "io" ->
             ApiErrorNew(INTERNAL_SERVER_ERROR, "Internal Error", e.arg)
      [] e.kind = "json" ->
             ApiErrorNew(INTERNAL_SERVER_ERROR, "JSON Error", e.arg)

\* StatusCode::from_u16(status).unwrap_or(INTERNAL_SERVER_ERROR)
FromU16(n) == IF n \in 100..999 THEN n ELSE INTERNAL_SERVER_ERROR

\* a call of the core returned Err(e) to its handler
HandlerError(e) ==
    /\ api = NoApi
    /\ api' = [api EXCEPT !.stage = "error", !.err = e]
    /\ UNCHANGED <<coreVars, config, health, ctl, lkVars, fnVars>>

\* `?` or map_err(ApiError::from)
ErrorToApi ==
    /\ api.stage = "error"
    /\ api' = [api EXCEPT !.stage = "problem", !.problem = ApiErrorFrom(api.err)]
    /\ UNCHANGED <<coreVars, config, health, ctl, lkVars, fnVars>>

\* v1_analysis: .with_request_id(request_id)
WithRequestId(id) ==
    /\ api.stage = "problem"
    /\ api.problem.request_id = 0
    /\ api' = [api EXCEPT !.problem.request_id = id]
    /\ UNCHANGED <<coreVars, config, health, ctl, lkVars, fnVars>>

\* impl IntoResponse for ApiError
IntoResponse ==
    /\ api.stage = "problem"
    /\ api' = [api EXCEPT !.stage = "response",
                          !.http_status = FromU16(api.problem.status)]
    /\ UNCHANGED <<coreVars, config, health, ctl, lkVars, fnVars>>

\* the response is sent
ResponseSent ==
    /\ api.stage = "response"
    /\ api' = NoApi
    /\ UNCHANGED <<coreVars, config, health, ctl, lkVars, fnVars>>

\* Every error of the core on its way through a handler.
NextApi ==
    \/ \E e \in KatagoErrors : HandlerError(e)
    \/ ErrorToApi
    \/ \E id \in AllIds : WithRequestId(id)
    \/ IntoResponse
    \/ ResponseSent

SpecApi == Init /\ [][NextApi]_vars

\* ------------------------------------------- analyze: request to query
\* Strings the code converts or takes apart are sequences of code points.
Str_b == <<98>>
Str_w == <<119>>
Str_D4 == <<68, 52>>
PASS == <<112, 97, 115, 115>>

\* Option<T>: None is the empty set, Some(v) the set of v alone
Option(S) == {{}} \cup {{v} : v \in S}
UnwrapOr(o, d) == IF o = {} THEN d ELSE CHOOSE v \in o : TRUE

\* str::to_lowercase, on the ASCII range
ToLowercase(s) ==
    [k \in DOMAIN s |-> IF s[k] \in 65..90 THEN s[k] + 32 ELSE s[k]]

\* komi is an f32; the model counts it in hundredths of a point and draws
\* it from the quarter points, which an f32 holds exactly
KOMI_DEFAULT == 750
Komis == {25 * q : q \in 0..(4 * MaxKomi)}
Floor(komi) == 100 * (komi \div 100)
Abs(n) == IF n < 0 THEN 0 - n ELSE n

\* initial_player is an unconstrained String of the request body
PlayerNames == {<<66>>, <<87>>, Str_b, Str_w,
                <<98, 108, 97, 99, 107>>,
                <<119, 104, 105, 116, 101>>}
RuleNames == {"japanese", "tromp-taylor"}
MoveLists == UNION {[1..n -> {Str_D4, PASS}] : n \in 0..MaxMoves}
StoneLists == {<< >>, << <<<<66>>, Str_D4>> >>}

Requests ==
    [moves : MoveLists, rules : Option(RuleNames), komi : Option(Komis),
     initial_stones : Option(StoneLists),
     initial_player : Option(PlayerNames), given : {TRUE}]

\* the player of the first move
FirstPlayer(req) ==
    LET has_handicap ==
            IF req.initial_stones = {} THEN FALSE
            ELSE UnwrapOr(req.initial_stones, << >>) # << >> IN
      IF req.initial_player # {}
        THEN ToLowercase(UnwrapOr(req.initial_player, << >>))
        ELSE IF has_handicap THEN Str_w ELSE Str_b

\* the value of `color` when the loop pushes the k-th move
RECURSIVE ColorAt(_, _)
ColorAt(first_player, k) ==
    IF k = 1 THEN first_player
    ELSE IF ColorAt(first_player, k - 1) = Str_b THEN Str_w ELSE Str_b

KatagoMoves(req) ==
    [k \in 1..Len(req.moves) |->
        <<ColorAt(FirstPlayer(req), k), req.moves[k]>>]

\* rules: the request's, or detected from the komi
RulesFor(req) ==
    IF req.rules # {} THEN UnwrapOr(req.rules, "")
    ELSE LET komi == UnwrapOr(req.komi, KOMI_DEFAULT) IN
           IF komi = Floor(komi) \/ Abs(komi - 650) < 1
             THEN "japanese" ELSE "chinese"

\* analyze up to the construction of the AnalysisQuery
BuildQuery ==
    /\ request.given
    /\ ~analysis_query.built
    /\ analysis_query' =
          [moves |-> KatagoMoves(request), rules |-> RulesFor(request),
           komi |-> UnwrapOr(request.komi, KOMI_DEFAULT), built |-> TRUE]
    /\ UNCHANGED <<coreVars, config, health, api, ctl, lkVars, request, mv,
                   pipe>>

InitQuery ==
    /\ InitEngine
    /\ request \in Requests
    /\ analysis_query = NoQuery
    /\ mv = NoMove
    /\ pipe = [i \in Incs |-> << >>]

NextQuery == BuildQuery

SpecQuery == InitQuery /\ [][NextQuery]_vars

\* --------------------------------------- is_valid_move, column letters
\* A &str is a sequence of code points; its len() counts the bytes of the
\* UTF-8 encoding.
Utf8Len(ch) == IF ch < 128 THEN 1 ELSE IF ch < 2048 THEN 2 ELSE 3

RECURSIVE ByteLen(_)
ByteLen(s) == IF s = << >> THEN 0 ELSE Utf8Len(Head(s)) + ByteLen(Tail(s))

ToAsciiUppercase(ch) == IF ch \in 97..122 THEN ch - 32 ELSE ch

EqIgnoreAsciiCase(s, t) ==
    /\ Len(s) = Len(t)
    /\ \A k \in DOMAIN s : ToAsciiUppercase(s[k]) = ToAsciiUppercase(t[k])

\* u8 arithmetic: a build with overflow checks (the dev profile) panics
\* where a build without them (the release profile) wraps
PANIC == -1
U8Sub(a, b, overflow_checks) ==
    IF a = PANIC \/ b = PANIC THEN PANIC
    ELSE IF a - b < 0 /\ overflow_checks THEN PANIC
    ELSE (a - b) % 256
U8Add(a, b, overflow_checks) ==
    IF a = PANIC \/ b = PANIC THEN PANIC
    ELSE IF a + b > 255 /\ overflow_checks THEN PANIC
    ELSE (a + b) % 256

\* str::parse::<u8>: an optional '+', then one or more ASCII digits whose
\* value fits a u8; -1 stands for Err
IsDigits(s) == \A k \in DOMAIN s : s[k] \in 48..57
RECURSIVE DigitsValue(_)
DigitsValue(s) ==
    IF s = << >> THEN 0
    ELSE 10 * DigitsValue(SubSeq(s, 1, Len(s) - 1)) + (s[Len(s)] - 48)
ParseU8(s) ==
    LET digits == IF s # << >> /\ s[1] = 43 THEN Tail(s) ELSE s IN
      IF digits = << >> \/ ~IsDigits(digits) THEN -1
      ELSE IF DigitsValue(digits) > 255 THEN -1
      ELSE DigitsValue(digits)

\* the column number of col_char; 0 - 2 stands for the early return at 'I'
COL_I == -2
ColNum(col_char, overflow_checks) ==
    IF col_char < 73
      THEN U8Add(U8Sub(col_char % 256, 65, overflow_checks), 1,
                 overflow_checks)
      ELSE IF col_char > 73
        THEN U8Sub(col_char % 256, 65, overflow_checks)
        ELSE COL_I

\* is_valid_move: "true", "false", or "panic" when the call does not return
IsValidMove(move_str, board_x_size, board_y_size, overflow_checks) ==
    IF ByteLen(move_str) < 2 THEN "false"
    ELSE IF EqIgnoreAsciiCase(move_str, PASS) THEN "true"
    ELSE LET col_char == ToAsciiUppercase(move_str[1])
             col_num  == ColNum(col_char, overflow_checks)
             row_num  == ParseU8(Tail(move_str)) IN
           \* &move_str[1..]: byte 1 must start a character
           IF Utf8Len(move_str[1]) > 1 THEN "panic"
           ELSE IF col_num = COL_I THEN "false"
           ELSE IF col_num = PANIC THEN "panic"
           ELSE IF col_num > board_x_size THEN "false"
           ELSE IF row_num # -1 /\ row_num >= 1 /\ row_num <= board_y_size
             THEN "true"
             ELSE "false"

\* column_letter_for_size without the step over 'I'
ColumnLetterNoSkip(board_size, overflow_checks) ==
    U8Sub(U8Add(65, board_size, overflow_checks), 1, overflow_checks)

ColumnLetterForSize(board_size, overflow_checks) ==
    IF board_size <= 8
      THEN U8Sub(U8Add(65, board_size, overflow_checks), 1, overflow_checks)
      ELSE U8Add(65, board_size, overflow_checks)

\* the move strings tried: every string of up to MaxMoveLen characters of
\* + 0 1 9 @ A I J [ a i and e-acute, letter and row of every column,
\* forms of "pass", and rows of two and three digits
MoveChars == {43, 48, 49, 57, 64, 65, 73, 74, 91, 97, 105, 233}
MoveStrings ==
    UNION {[1..n -> MoveChars] : n \in 0..MaxMoveLen}
      \cup {<<ch, 49>> : ch \in 65..91}
      \cup {PASS, <<80, 65, 83, 83>>, <<80, 97, 115, 83>>,
            <<112, 97, 115>>, <<112, 97, 115, 115, 115>>,
            <<65, 49, 48>>, <<65, 49, 57>>, <<65, 50, 48>>,
            <<84, 49, 57>>, <<65, 43, 53>>, <<65, 48, 49>>,
            <<65, 50, 53, 53>>, <<65, 50, 53, 54>>}
BoardWidths  == 0..MaxWidth \cup {241, 255}
BoardHeights == {0, 1, 19, 255}

MoveInputs ==
    [move_str : MoveStrings, board_x_size : BoardWidths,
     board_y_size : BoardHeights, overflow_checks : BOOLEAN,
     valid : {"none"}, letter : {-2}]

\* is_valid_move applied to the move string and the board of the input
ValidateMove ==
    /\ mv.valid = "none"
    /\ mv' = [mv EXCEPT !.valid =
                 IsValidMove(mv.move_str, mv.board_x_size, mv.board_y_size,
                             mv.overflow_checks)]
    /\ UNCHANGED <<coreVars, config, health, api, ctl, lkVars, request,
                   analysis_query, pipe>>

\* column_letter_for_size applied to the width of the input
ColumnLetter ==
    /\ mv.valid # "idle"
    /\ mv.letter = -2
    /\ mv' = [mv EXCEPT !.letter =
                 ColumnLetterForSize(mv.board_x_size, mv.overflow_checks)]
    /\ UNCHANGED <<coreVars, config, health, api, ctl, lkVars, request,
                   analysis_query, pipe>>

InitMoves ==
    /\ InitEngine
    /\ request = NoRequest
    /\ analysis_query = NoQuery
    /\ mv \in MoveInputs
    /\ pipe = [i \in Incs |-> << >>]

NextMoves == ValidateMove \/ ColumnLetter

SpecMoves == InitMoves /\ [][NextMoves]_vars

\* --------------------------------------------- the pipe to the child
\* The pipe to the child's stdin holds PipeCap lines.  write() on a full
\* pipe returns only when the child has read from it or has exited, and
\* the writer keeps the guard of the stdin mutex meanwhile.  The actions
\* below are send_query and the keepalive ping with the lock and the write
\* as separate steps, and the child's reading as a step of its own.
EmptyPipes == [i \in Incs |-> << >>]

\* send_query: stdin.lock()
SendLock(c) ==
    /\ pc[c] = "send"
    /\ stdin_guard = NoSender
    /\ stdin_guard' = <<"send_query", c>>
    /\ pc' = [pc EXCEPT ![c] = "locked"]
    /\ UNCHANGED <<process_alive, pending, svVars, engineVars, cid, chan,
                   result, reg_inc, core, new_result, wpc, wire, auxVars>>

\* send_query: as_mut(), writeln!, flush, and the guard dropped at return
SendWrite(c) ==
    /\ pc[c] = "locked"
    /\ stdin_guard' = NoSender
    /\ IF stdin = 0
         THEN /\ pc' = [pc EXCEPT ![c] = "done"]
              /\ result' = [result EXCEPT ![c] = ErrResult("dead")]
              /\ UNCHANGED <<process_alive, pipe>>
         ELSE IF child[stdin] = "running"
         THEN /\ Len(pipe[stdin]) < PipeCap
              /\ pipe' = [pipe EXCEPT ![stdin] = Append(@, Query(cid[c]))]
              /\ pc' = [pc EXCEPT ![c] = "sent"]
              /\ UNCHANGED <<process_alive, result>>
         ELSE /\ pc' = [pc EXCEPT ![c] = "done"]
              /\ pipe' = pipe
              /\ \E fails \in {"writeln", "flush"} :
                    IF fails = "writeln"
                      THEN /\ result' = [result EXCEPT ![c] = ErrResult("io")]
                           /\ process_alive' = process_alive
                      ELSE /\ result' = [result EXCEPT ![c] = ErrResult("dead")]
                           /\ process_alive' = FALSE
    /\ UNCHANGED <<pending, svVars, engineVars, cid, chan, reg_inc, core,
                   new_result, wpc, wire, config, health, api, ctl, lkVars,
                   request, analysis_query, mv>>

\* the child reads a line from its stdin
ChildReadsStdin(i) ==
    /\ child[i] = "running"
    /\ pipe[i] # << >>
    /\ inbox' = [inbox EXCEPT ![i][Head(pipe[i])] = @ + 1]
    /\ pipe' = [pipe EXCEPT ![i] = Tail(@)]
    /\ UNCHANGED <<process_alive, pending, svVars, spawned, child, reader,
                   drain, outq, callVars, core, new_result, lockVars,
                   config, health, api, ctl, lkVars, request,
                   analysis_query, mv>>

\* the monitor, flag seen true: stdin.lock() for the ping
PingLock ==
    /\ sv_pc = "sleep"
    /\ process_alive
    /\ stdin_guard = NoSender
    /\ stdin_guard' = <<"keepalive", 0>>
    /\ sv_pc' = "ping"
    /\ UNCHANGED <<process_alive, pending, stdin, process, restart_count,
                   engineVars, callVars, core, new_result, wpc, wire,
                   auxVars>>

PingsInPipe(i) == Cardinality({k \in DOMAIN pipe[i] : pipe[i][k] = Ping})

\* the monitor: writeln! and flush of the ping, the guard dropped at the
\* end of the loop body
PingWrite ==
    /\ sv_pc = "ping"
    /\ sv_pc' = "sleep"
    /\ stdin_guard' = NoSender
    /\ IF stdin = 0
         THEN UNCHANGED <<process_alive, restart_count, pipe>>
         ELSE IF child[stdin] = "running"
         THEN /\ Len(pipe[stdin]) < PipeCap
              /\ restart_count' = 0
              /\ process_alive' = process_alive
              /\ pipe' = IF PingsInFlight(stdin) + PingsInPipe(stdin)
                              < MaxPings
                           THEN [pipe EXCEPT ![stdin] = Append(@, Ping)]
                           ELSE pipe
         ELSE /\ process_alive' = FALSE
              /\ restart_count' = restart_count
              /\ pipe' = pipe
    /\ UNCHANGED <<pending, stdin, process, engineVars, callVars, core,
                   new_result, wpc, wire, config, health, api, ctl, lkVars,
                   request, analysis_query, mv>>

\* the restart installs the new stdin under the stdin mutex
SpawnOkLocked == stdin_guard = NoSender /\ SpawnOk

CallStep(c) ==
    \/ Analyze(c, 1)
    \/ SendLock(c)
    \/ SendWrite(c)
    \/ Register(c)
    \/ RecvLine(c)
    \/ RecvClosed(c)
    \/ Deadline(c)
    \/ TimeoutCancel(c)

ReaderSteps ==
    \/ \E i \in Incs : \E k \in LineKeys : ReadLine(i, k)
    \/ \E i \in Incs : ReadEof(i)

MonitorSteps ==
    \/ TickGiveUp
    \/ TickDead
    \/ KillOld
    \/ SpawnOkLocked
    \/ SpawnErr
    \/ PingLock
    \/ PingWrite

ChildSteps ==
    \/ \E i \in Incs : ChildReadsStdin(i)
    \/ \E i \in Incs : ChildExit(i)
    \/ Replies({"result"})

NextFair ==
    \/ \E c \in Callers : CallStep(c)
    \/ ReaderSteps
    \/ MonitorSteps
    \/ ChildSteps

\* Fair scheduling: every call, the reader threads and the monitor keep
\* taking steps, a call waiting for the stdin mutex gets it if it is free
\* again and again, and the deadline timer fires.  Nothing is assumed of
\* the child.
Fairness ==
    /\ \A c \in Callers :
          /\ WF_vars(CallStep(c))
          /\ SF_vars(SendLock(c))
          /\ WF_vars(Deadline(c))
    /\ WF_vars(ReaderSteps)
    /\ WF_vars(MonitorSteps)

SpecFair == Init /\ [][NextFair]_vars /\ Fairness

\* ================================================================ claims
Started(c) == pc[c] # "idle"

DistinctIds ==
    \A c1, c2 \in Callers :
        (Started(c1) /\ Started(c2) /\ c1 # c2) => cid[c1] # cid[c2]

\* The first child is up and no child has ever exited.
LiveEngine == spawned = 1 /\ child[1] = "running" /\ process_alive

Returns(c) == pc[c] # "done" /\ pc'[c] = "done"

\* C1: a line handed to a call carries the id the call submitted, and a
\* successful response has that id; no call ever holds a line of another id.
C1_ResponseIdIsSubmittedId ==
    \A c \in Callers :
        /\ chan[c].st = "value" => chan[c].line.id = cid[c]
        /\ (pc[c] = "done" /\ result[c].kind = "ok") =>
               (result[c].id = cid[c] /\ result[c].line.id = cid[c])

C1_Witness ==
    \E c \in Callers : pc[c] = "done" /\ result[c].kind = "ok"

\* C2: with pairwise distinct ids and a live engine that answers every
\* query once, the line of every call whose query was written is on its way
\* to the call (not yet emitted, in the pipe, or in the call's channel)
\* until the call returns: no line is discarded.
C2_NoLineDiscarded ==
    (LiveEngine /\ DistinctIds) =>
        \A c \in Callers :
            pc[c] \in {"sent", "waiting"} =>
                \/ inbox[1][Query(cid[c])] > 0
                \/ \E k \in LineKinds : outq[1][Key(cid[c], k)] > 0
                \/ (chan[c].st = "value" /\ chan[c].line.id = cid[c])

\* C3: at the step that writes the query line of a call, the pending table
\* already holds the entry of that call.
C3_RegisteredBeforeWrite ==
    [][\A c \in Callers :
          (pc[c] = "send" /\ pc'[c] = "sent") =>
              [id |-> cid[c], owner |-> c] \in pending]_vars

\* C4: registering an id that is already in the table fails the call with
\* DUPLICATE_ID and leaves the table and the earlier call's slot unchanged.
C4_DuplicateIdRejected ==
    [][\A c \in Callers :
          (pc[c] = "sent" /\ pc'[c] # "sent" /\ HasEntry(pending, cid[c])) =>
              /\ pc'[c] = "done"
              /\ result'[c].kind = "duplicate_id"
              /\ pending' = pending
              /\ \A o \in Callers \ {c} : chan'[o] = chan[o]]_vars

\* C5: the pending table never holds two entries for one id.
C5_OneEntryPerId ==
    \A e1, e2 \in pending : e1.id = e2.id => e1 = e2

\* a second call has registered an id whose entry was still in the table
C5_Witness ==
    \E c1, c2 \in Callers :
        /\ c1 # c2
        /\ cid[c1] = cid[c2]
        /\ chan[c1].st = "closed"
        /\ [id |-> cid[c2], owner |-> c2] \in pending

\* C6: a call whose deadline elapsed returns TIMEOUT with the configured
\* seconds, and the table holds no entry for its id when it returns.
C6_TimeoutRemovesEntry ==
    [][\A c \in Callers :
          (pc[c] = "timedout" /\ Returns(c)) =>
              /\ result'[c].kind = "timeout"
              /\ result'[c].secs = move_timeout_secs
              /\ ~HasEntry(pending', cid[c])]_vars

C6_Witness ==
    \E c \in Callers :
        /\ pc[c] = "done"
        /\ result[c].kind = "timeout"
        /\ result[c].secs = move_timeout_secs

\* C7: no call returns a response body while the liveness flag is false.
C7_NoBodyWhileDead ==
    [][\A c \in Callers :
          (Returns(c) /\ ~process_alive) => result'[c].kind # "ok"]_vars

C9_DeathDrainsTable ==
    [][(process_alive /\ ~process_alive') =>
          /\ pending' = {}
          /\ \A c \in Callers :
                chan[c].st = "open" => chan'[c].st = "closed"]_vars

\* C10: a waiter never receives a line of an incarnation spawned after it
\* registered.
C10_NoLineFromLaterIncarnation ==
    \A c \in Callers :
        chan[c].st = "value" => chan[c].line.inc <= reg_inc[c]

\* the monitor's spawn succeeded in this step
Restarted == spawned' = spawned + 1 /\ sv_pc = "spawn"

\* C11: after a death with attempts left, a successful spawn of the monitor
\* sets the liveness flag to true, and from then on the flag stays true as
\* long as the new child stays up: the flag goes from true to false only
\* when the child of the installed stream is not running.
C11_RestartRestoresService ==
    [][/\ Restarted => process_alive'
       /\ (process_alive /\ ~process_alive') =>
              (stdin = 0 \/ child[stdin] # "running")]_vars

\* a restart attempt (spawn succeeded or failed) ends in this step
RestartAttempt == sv_pc = "spawn" /\ sv_pc' = "sleep"

\* a keepalive ping reaches the child of the installed stream in this step
PingWritten ==
    /\ stdin # 0
    /\ inbox'[stdin][Ping] = inbox[stdin][Ping] + 1

\* C12: the restart counter starts at 0, grows by one on every restart
\* attempt, whether the spawn succeeded or failed, is reset to 0 when a
\* keepalive ping is written, changes in no other way (a reset needs a tick
\* with the flag true and a running child behind the stream), and never
\* exceeds MAX_RESTART_ATTEMPTS.
C12_RestartCounter ==
    /\ restart_count = 0
    /\ [](restart_count \in 0..MAX_RESTART_ATTEMPTS)
    /\ [][/\ RestartAttempt => restart_count' = restart_count + 1
          /\ PingWritten => restart_count' = 0
          /\ restart_count' # restart_count =>
                \/ RestartAttempt
                \/ /\ restart_count' = 0
                   /\ sv_pc = "sleep" /\ process_alive
                   /\ stdin # 0 /\ child[stdin] = "running"]_vars

\* the counter was raised by a restart and reset by a ping to the new child
C12_Witness ==
    /\ spawned = 2
    /\ restart_count = 0
    /\ inbox[2][Ping] > 0

GivenUp ==
    sv_pc = "sleep" /\ ~process_alive /\ restart_count >= MAX_RESTART_ATTEMPTS

\* C13: with the flag false and the counter at the cap, a tick (as any
\* other step) reaps no child, spawns none, installs no stream, leaves the
\* flag and the counter as they are and leaves the monitor in its loop.
C13_GiveUpTickChangesNothing ==
    [][GivenUp =>
          /\ \A i \in Incs : child'[i] = "reaped" => child[i] = "reaped"
          /\ spawned' = spawned
          /\ stdin' = stdin
          /\ process' = process
          /\ ~process_alive'
          /\ restart_count' = restart_count
          /\ sv_pc' = "sleep"]_vars

C13_Witness ==
    GivenUp /\ restart_count = MAX_RESTART_ATTEMPTS

\* C15: no analyze call is handed the reply to a keepalive ping or to
\* query_version, whatever request id the call supplied.
C15_PingReplyNeverDelivered ==
    \A c \in Callers :
        chan[c].st = "value" => chan[c].line.kind # "version"

\* C16: a failed write or flush of send_query clears the liveness flag,
\* returns ENGINE_DEAD and drops the input-stream handle.
C16_WriteFailureMarksDead ==
    [][\A c \in Callers :
          (pc[c] = "send" /\ pc'[c] = "done" /\ stdin # 0) =>
              /\ ~process_alive'
              /\ result'[c].kind = "dead"
              /\ stdin' = 0]_vars

\* C17: a delivered line with an "error" field fails the call with
\* ENGINE_ERROR, a line that does not decode and has no "error" field fails
\* it with PROTOCOL_ERROR, and only a line that decodes and has no "error"
\* field yields a success.
C17_LineClassification ==
    [][\A c \in Callers :
          (pc[c] = "waiting" /\ Returns(c) /\ chan[c].st = "value") =>
              LET k == chan[c].line.kind IN
                /\ HasError(k) => result'[c].kind = "engine_error"
                /\ (~Decodes(k) /\ ~HasError(k)) =>
                       result'[c].kind = "parse_error"
                /\ result'[c].kind = "ok" => (Decodes(k) /\ ~HasError(k))]_vars

\* C18: teardown leaves the pending table empty and the child the core
\* referenced killed and reaped.
C18_TeardownKillsAndReaps ==
    [][(core = "live" /\ core' = "dropped") =>
          /\ pending' = {}
          /\ \A c \in Callers : chan'[c].st # "open"
          /\ process # 0 => child'[process] = "reaped"]_vars

Running == {i \in Incs : child[i] = "running"}

C20_SpawnFailure ==
    /\ [](new_result = "start_failed" =>
             /\ core = "unbuilt"
             /\ ~process_alive
             /\ sv_pc = "none"
             /\ \A i \in Incs : reader[i] = "none" /\ child[i] = "none")
    /\ [][/\ (core = "unbuilt" /\ new_result' # new_result /\ spawned' = spawned)
              => new_result' = "start_failed"
          /\ (RestartAttempt /\ spawned' = spawned) =>
                 /\ sv_pc' = "sleep"
                 /\ ~process_alive'
                 /\ restart_count' = restart_count + 1]_vars

C20_Witness ==
    new_result = "start_failed" /\ spawned = 0 /\ ~process_alive

InSection(u) == wpc[u] \in {"locked", "payload", "line", "flushed"}

\* C14: at most one sender is between taking the stdin mutex and releasing
\* it, so payload, newline and flush of one sender happen with no write of
\* another in between: the unfinished line on the wire is the payload of
\* the one sender that is about to write its newline.
C14_OneWriterAtATime ==
    /\ Cardinality({u \in Senders : InSection(u)}) <= 1
    /\ \A u \in Senders : InSection(u) => stdin_guard = u
    /\ Len(wire) <= 1
    /\ \A u \in Senders : (wire = <<u>>) <=> (wpc[u] = "payload")

\* a sender has written its payload while two others wait for the mutex
C14_Witness ==
    \E u, v, w \in Senders :
        /\ u[1] = "send_query" /\ v[1] = "keepalive" /\ w[1] = "clear_cache"
        /\ wpc[u] = "payload"
        /\ wpc[v] = "wait"
        /\ wpc[w] = "wait"

\* C21: the health endpoint answers with what is_alive returns, and that
\* is the liveness flag at that moment: 200 "healthy" when the flag is
\* true, 503 "unhealthy" when it is false, wherever the monitor is.
C21_HealthReflectsFlag ==
    /\ [](IsAlive = process_alive)
    /\ [][(health = NoHealth /\ health' # NoHealth) =>
             health' = IF process_alive
                         THEN [code |-> 200, status |-> "healthy"]
                         ELSE [code |-> 503, status |-> "unhealthy"]]_vars

\* the endpoint answered "unhealthy" and the monitor is restarting
C21_Witness ==
    /\ health = [code |-> 503, status |-> "unhealthy"]
    /\ sv_pc = "spawn"

\* the HTTP status the claim gives for every error kind
ClaimedStatus(kind) ==
    CASE kind = "timeout" -> 504
      [] kind \in {"dead", "start_failed"} -> 503
      [] kind = "invalid_command" -> 400
      [] kind \in {"parse_error", "engine_error", "io"} -> 500
      [] OTHER -> 500

\* C23: every error kind of the core has one fixed HTTP status (504 for a
\* timeout, 503 for a dead engine and a failed start, 400 for an invalid
\* command, 500 for the others), and the status field of the problem body
\* equals the status of the HTTP response.
C23_ErrorStatusMapping ==
    /\ api.stage \in {"problem", "response"} =>
           api.problem.status = ClaimedStatus(api.err.kind)
    /\ api.stage = "response" => api.http_status = api.problem.status

C23_Witness ==
    /\ api.stage = "response"
    /\ api.err.kind = "timeout"
    /\ api.http_status = 504
    /\ api.problem.request_id # 0

\* C24: the default configuration is katago_path "./katago", model_path
\* "./model.bin.gz", config_path "./gtp_config.cfg", move_timeout_secs 20,
\* host "0.0.0.0" and port 2718.
C24_DefaultConfig ==
    config = [server |-> [host |-> "0.0.0.0", port |-> 2718],
              katago |-> [katago_path |-> "./katago",
                          model_path |-> "./model.bin.gz",
                          config_path |-> "./gtp_config.cfg",
                          move_timeout_secs |-> 20]]

\* the stdout reader of incarnation i leaves its loop in this step
ReaderExits(i) == reader[i] = "running" /\ reader'[i] = "exited"

\* a step of a stdout reader
ReaderStep ==
    \/ \E i \in Incs : \E k \in LineKeys : ReadLine(i, k)
    \/ \E i \in Incs : ReadEof(i)

\* C25: a stdout reader leaves its loop only at the end of its stream (the
\* child is gone and its output is read), it stores false in the liveness
\* flag when it does, and no step of a reader writes to the engine's
\* stdin.
C25_ReaderEofClearsFlag ==
    [][/\ \A i \in Incs :
             ReaderExits(i) =>
                /\ ~process_alive'
                /\ child[i] \in {"exited", "reaped"}
                /\ outq[i] = EmptyOutq
       /\ ReaderStep => (inbox' = inbox /\ stdin' = stdin)]_vars

\* the first reader has left its loop and nothing else has happened to
\* the flag since
C25_Witness ==
    /\ reader[1] = "exited"
    /\ ~process_alive
    /\ spawned = 1
    /\ sv_pc = "sleep"

\* the stderr drain of incarnation i ends in this step
DrainExits(i) == drain[i] = "running" /\ drain'[i] = "exited"

\* C26: the end of a stderr drain changes neither the liveness flag nor
\* the pending table nor the restart counter.
C26_DrainEndChangesNothing ==
    [][\A i \in Incs :
          DrainExits(i) =>
             /\ process_alive' = process_alive
             /\ pending' = pending
             /\ restart_count' = restart_count]_vars

\* the drain of the running engine has ended while a caller waits and the
\* engine is still held to be alive
C26_Witness ==
    /\ drain[1] = "exited"
    /\ child[1] = "running"
    /\ process_alive
    /\ pending # {}

\* C28: once the monitor has started a new incarnation, the stdout reader
\* of an earlier incarnation does not turn the liveness flag from true to
\* false when it leaves its loop.
C28_OldReaderLeavesFlag ==
    [][\A i \in Incs :
          (ReaderExits(i) /\ i < spawned) =>
              (process_alive => process_alive')]_vars

\* C29: a tick with the flag true writes at most one keepalive ping and
\* registers no waiter; when the write fails the flag becomes false and
\* restart_count is unchanged, when it succeeds restart_count is 0; and no
\* step taken while the monitor sleeps with the flag true starts a restart.
C29_KeepaliveTick ==
    [][/\ TickPing =>
            /\ pending' = pending /\ chan' = chan
            /\ stdin # 0
            /\ IF child[stdin] = "running"
                 THEN /\ process_alive' /\ restart_count' = 0
                      /\ inbox'[stdin][Ping] =
                           inbox[stdin][Ping] +
                             (IF PingsInFlight(stdin) < MaxPings THEN 1 ELSE 0)
                 ELSE /\ ~process_alive'
                      /\ restart_count' = restart_count
                      /\ inbox' = inbox
       /\ (sv_pc = "sleep" /\ process_alive) =>
            (sv_pc' = "sleep" /\ spawned' = spawned /\ child' \in
                {child} \cup {[child EXCEPT ![i] = "exited"] : i \in Incs})]_vars

\* a failed ping cleared the flag: the first reader is still in its loop
\* and no caller has written
C29_Witness ==
    /\ ~process_alive
    /\ sv_pc = "sleep"
    /\ spawned = 1
    /\ reader[1] = "running"
    /\ restart_count = 0
    /\ \A c \in Callers : pc[c] = "idle"

\* C27: a line that is not JSON, that has no string id, or whose id has no
\* entry in the pending table is discarded: reading it changes neither the
\* table nor any caller's channel nor the liveness flag.
C27_UnroutableLineDiscarded ==
    [][outq' # outq =>
          \A i \in Incs : \A k \in LineKeys :
             (/\ outq'[i][k] = outq[i][k] - 1
              /\ \/ k.kind \in {"nonjson", "noid"}
                 \/ \A e \in pending : e.id # k.id) =>
                /\ pending' = pending
                /\ chan' = chan
                /\ process_alive' = process_alive]_vars

\* a line without an id is the only line the reader has to read, while a
\* caller waits on its entry
C27_Witness ==
    /\ pending # {}
    /\ \E c \in Callers : pc[c] = "waiting" /\ chan[c].st = "open"
    /\ reader[1] = "running"
    /\ \E k \in LogKeys : outq[1] = [EmptyOutq EXCEPT ![k] = 1]
    /\ process_alive

\* the mutexes unit u holds
Holds(u) == {l \in LockNames : held[l] = u}

\* C30: no unit waits on its slot while it holds the stdin mutex, no unit
\* does I/O on an engine stream while it holds the pending lock, no unit
\* holds two of the three mutexes at once, and no unit is stuck with a
\* mutex in its hands: whoever holds one can take its next step.
C30_LockDiscipline ==
    \A u \in LkUnits :
        /\ NextOp(u).op = "slot_wait" => "stdin" \notin Holds(u)
        /\ NextOp(u).op = "stream_io" => "pending" \notin Holds(u)
        /\ Cardinality(Holds(u)) <= 1
        /\ Holds(u) # {} => ENABLED LkUnit(u)

\* a caller waits on its slot, a reader holds the pending lock, the monitor
\* holds the process lock and the control call holds the stdin lock
C30_Witness ==
    /\ \E c \in Callers : lpc[<<"analyze", c>>] = "wait"
    /\ \E i \in Incs : held["pending"] = <<"reader", i>>
    /\ held["process"] = <<"monitor", 0>>
    /\ held["stdin"] = <<"control", 0>>
    /\ \E c \in Callers : lpc[<<"analyze", c>>] = "lock_stdin"

\* C22: no step of a clear_cache or query_version call changes the pending
\* table or a caller's channel; query_version returns Ok only from its
\* check after the sleep, which it reaches only after a successful write,
\* and only with the flag true there; with the flag false there it
\* returns ProcessDied.
C22_ControlCallsKeepTable ==
    [][ctl' # ctl =>
          /\ pending' = pending
          /\ chan' = chan
          /\ ctl'.pc = "sleep" =>
                (stdin # 0 /\ inbox'[stdin][VersionQuery] =
                                 inbox[stdin][VersionQuery] + 1)
          /\ (ctl'.op = "query_version" /\ ctl'.res = "ok") =>
                (ctl.pc = "sleep" /\ process_alive)
          /\ (ctl.pc = "sleep" /\ ~process_alive) => ctl'.res = "dead"]_vars

\* query_version has returned ProcessDied while an analyze call is
\* registered
C22_Witness ==
    /\ ctl = [op |-> "query_version", pc |-> "done", res |-> "dead"]
    /\ pending # {}

\* C36: the removal of a call that timed out takes no other call's entry
\* out of the pending table and closes no other call's channel.
C36_TimeoutRemovesOwnEntryOnly ==
    [][\A c \in Callers :
          (pc[c] = "timedout" /\ pc'[c] = "done") =>
             /\ \A e \in pending : e.owner # c => e \in pending'
             /\ \A d \in Callers \ {c} : chan'[d] = chan[d]]_vars

C38_NoChildAfterTeardown ==
    core = "dropped" => \A i \in Incs : child[i] # "running"

\* C39: with the flag true the installed stdin is the stdin of the
\* referenced child, and with no child referenced no stdin is installed.
C39_StdinBelongsToChild ==
    /\ process_alive => stdin = process
    /\ process = 0 => stdin = 0

\* C31: when the engine writes several lines with the id of one request,
\* the first of them is the only one that reaches a caller: no channel ever
\* holds a later one.
C31_OnlyFirstLineDelivered ==
    \A c \in Callers :
        chan[c].st = "value" => chan[c].line.kind # "later"

\* what the rules are said to be: the given ones, else japanese for a whole
\* komi and for x.5 with x even, chinese otherwise
ClaimedRules(req) ==
    IF req.rules # {} THEN UnwrapOr(req.rules, "")
    ELSE LET komi == UnwrapOr(req.komi, KOMI_DEFAULT) IN
           IF \/ komi % 100 = 0
              \/ komi % 100 = 50 /\ (komi \div 100) % 2 = 0
             THEN "japanese" ELSE "chinese"

\* C32: the query's rules are the request's when given; otherwise they are
\* "japanese" for every whole komi and every komi x.5 with x even, and
\* "chinese" for every other komi (7.5 when the request has none)
C32_RulesFromKomi ==
    analysis_query.built => analysis_query.rules = ClaimedRules(request)

\* C33: the query's moves are the request's in number and order, each with
\* a color "b" or "w", the colors alternating, the first one the lowercased
\* initial player when given, else "w" with initial stones and "b" without
C33_MoveColors ==
    analysis_query.built =>
        LET m == analysis_query.moves IN
          /\ Len(m) = Len(request.moves)
          /\ \A k \in DOMAIN m :
                /\ m[k][2] = request.moves[k]
                /\ m[k][1] \in {Str_b, Str_w}
                /\ k > 1 => m[k][1] # m[k - 1][1]
          /\ Len(m) > 0 => m[1][1] = FirstPlayer(request)

\* the columns of a board: A..Z without I
GoColumns == <<65, 66, 67, 68, 69, 70, 71, 72, 74, 75, 76, 77, 78, 79, 80,
               81, 82, 83, 84, 85, 86, 87, 88, 89, 90>>
ColumnPos(ch) == CHOOSE k \in DOMAIN GoColumns : GoColumns[k] = ch
IsGoColumn(ch) == \E k \in DOMAIN GoColumns : GoColumns[k] = ch

\* what a valid move is said to be
ClaimedValid(s, x, y) ==
    \/ EqIgnoreAsciiCase(s, PASS)
    \/ /\ Len(s) >= 2
       /\ IsGoColumn(ToAsciiUppercase(s[1]))
       /\ ColumnPos(ToAsciiUppercase(s[1])) <= x
       /\ IsDigits(Tail(s))
       /\ DigitsValue(Tail(s)) >= 1
       /\ DigitsValue(Tail(s)) <= y

Validated == mv.valid \in {"true", "false", "panic"}

\* C34: is_valid_move returns true exactly for "pass" in any case and for
\* a column letter other than I, in either case, at a position within the
\* width, followed by a decimal row 1..height; it returns false for every
\* other string, the strings shorter than two characters included
C34_ValidMoveExactly ==
    Validated =>
        mv.valid = IF ClaimedValid(mv.move_str, mv.board_x_size,
                                   mv.board_y_size)
                     THEN "true" ELSE "false"

\* C35: for a width n of 1..25 the column letter is the n-th of A..Z
\* without I, and it is the last valid column: the letter with row 1 is a
\* valid move on a board n wide, the next letter with row 1 is not
C35_LastColumnLetter ==
    (Validated /\ mv.board_x_size \in 1..25 /\ mv.board_y_size >= 1) =>
        LET n == mv.board_x_size IN
          /\ ColumnLetterForSize(n, mv.overflow_checks) = GoColumns[n]
          /\ mv.letter # -2 => mv.letter = GoColumns[n]
          /\ mv.move_str = <<ColumnLetterForSize(n, mv.overflow_checks), 49>>
                => mv.valid = "true"
          /\ (n < 25 /\ mv.move_str = <<GoColumns[n + 1], 49>>)
                => mv.valid = "false"

C35_Witness ==
    /\ mv.board_x_size = 9
    /\ mv.move_str = <<74, 49>>
    /\ mv.valid = "true"
    /\ mv.letter = 74

\* C40: every analyze call that has started returns
C40_EveryCallReturns ==
    \A c \in Callers : (pc[c] # "idle") ~> (pc[c] = "done")

====
